---- MODULE Spec2Model ----
(***************************************************************************)
(* PrintViewSet.prediction_json (web/api/viewsets.py): conditional fetch   *)
(* of a print's prediction timeline and normalisation of every frame       *)
(* against the owning printer's detective_sensitivity, together with       *)
(* PrinterViewSet.partial_update, which changes that sensitivity.          *)
(*                                                                         *)
(* Conventions.  A Python value that may be None is a sequence: <<>> is    *)
(* None and <<v>> is the value v.  A dict is a function whose DOMAIN is    *)
(* its key set.  Floats are fixed point: sensitivities in tenths,          *)
(* probabilities in hundredths (Unit is 1.0).                              *)
(***************************************************************************)
EXTENDS Integers, Sequences, FiniteSets

VARIABLES
    printer_sensitivity,  \* Printer.detective_sensitivity, the stored row
    pc,          \* position of the request: "idle", "fetching", "done"
    request,     \* the inbound request: [pk, headers]
    p,           \* the Print loaded at line 173 (None before any request)
    sent,        \* the upstream GET issued at line 186 (None if not issued)
    r,           \* the upstream response (None: none yet, or timed out)
    resp,        \* the outcome of the request (None while in flight)
    net_calls,   \* requests.get calls made by the current request
    json_calls,  \* r.json() calls made by the current request
    calc_calls,  \* indices of the frames calc_normalized_p was invoked for
    sens_at_request, \* history: stored sensitivity when the request was made
    seen_sensitivity, \* history: sensitivity the previous request loaded (None: none)
    calc_in,     \* inputs of the calibration function under SpecCalc
    calc_out     \* its outputs under SpecCalc

vars == <<printer_sensitivity, pc, request, p, sent, r, resp, net_calls,
          json_calls, calc_calls, sens_at_request, seen_sensitivity, calc_in,
          calc_out>>

None == <<>>
Some(v) == <<v>>
EmptyDict == [k \in {} |-> ""]

----------------------------------------------------------------------------
(* Bounds of the model *)

MaxFrames == 2
MaxRaw == 4
MinSensitivity == 8
MaxSensitivity == 12

(* Program constants *)

PREDICTION_FETCH_TIMEOUT == 20
DefaultSensitivity == 10
Unit == 100

Sensitivities == MinSensitivity..MaxSensitivity
\* values an owner sets through partial_update
UpdateValues == {DefaultSensitivity, MaxSensitivity}

Min(a, b) == IF a < b THEN a ELSE b

----------------------------------------------------------------------------
(* Stored rows *)

\* The user's prints: pk -> (prediction_json_url, has a printer).
print_rows ==
    [pk \in 1..4 |->
        CASE pk = 1 -> [prediction_json_url |-> Some("https://store/1.json"), has_printer |-> TRUE]
          [] pk = 2 -> [prediction_json_url |-> Some("https://store/2.json"), has_printer |-> FALSE]
          [] pk = 3 -> [prediction_json_url |-> None, has_printer |-> TRUE]
          [] pk = 4 -> [prediction_json_url |-> Some(""), has_printer |-> TRUE]]

\* Primary keys a client may ask for; 5 is no print of the user.
PrimaryKeys == 1..5

\* get_queryset().select_related('printer') row for pk, or None (Http404).
get_object_or_404_stale(pk) ==
    IF pk \notin DOMAIN print_rows THEN None
    ELSE Some([pk |-> pk,
               prediction_json_url |-> print_rows[pk].prediction_json_url,
               printer |-> IF print_rows[pk].has_printer
                           THEN Some([detective_sensitivity |->
                                   IF seen_sensitivity # None
                                   THEN seen_sensitivity[1]
                                   ELSE printer_sensitivity])
                           ELSE None])

get_object_or_404(pk) ==
    IF pk \notin DOMAIN print_rows THEN None
    ELSE Some([pk |-> pk,
               prediction_json_url |-> print_rows[pk].prediction_json_url,
               printer |-> IF print_rows[pk].has_printer
                           THEN Some([detective_sensitivity |-> printer_sensitivity])
                           ELSE None])

----------------------------------------------------------------------------
(* Headers *)

HeaderValues == {"", "abc"}

\* dict.get: the value under key k, or None.
Get(d, k) == IF k \in DOMAIN d THEN Some(d[k]) ELSE None

\* All dicts over the given keys, each key present or absent independently.
Dicts(keys) == UNION {[ks -> HeaderValues] : ks \in SUBSET keys}

ClientHeaders == Dicts({"if-modified-since", "if-none-match"})
UpstreamHeaders == Dicts({"Last-Modified", "Etag"})

\* lines 181-184
BuildHeaders(req_headers) ==
    [k \in {"If-Modified-Since", "If-None-Match"} |->
        IF k = "If-Modified-Since" THEN Get(req_headers, "if-modified-since")
        ELSE Get(req_headers, "if-none-match")]

\* line 188: {k: v for k, v in headers.items() if v is not None}
RequestHeaders_placeholder(headers) ==
    [k \in DOMAIN headers |-> IF headers[k] = None THEN "None" ELSE headers[k][1]]

RequestHeaders(headers) ==
    [k \in {x \in DOMAIN headers : headers[x] # None} |-> headers[k][1]]

\* lines 191-194
BuildRespHeaders(rr) ==
    [k \in {"Last-Modified", "Etag"} |-> Get(rr.headers, k)]

\* lines 201 and 224: {k: v for k, v in resp_headers.items() if v is not None}
ResponseHeaders_both(resp_headers) ==
    IF \A x \in DOMAIN resp_headers : resp_headers[x] # None
    THEN [k \in DOMAIN resp_headers |-> resp_headers[k][1]]
    ELSE EmptyDict

ResponseHeaders(resp_headers) ==
    [k \in {x \in DOMAIN resp_headers : resp_headers[x] # None} |-> resp_headers[k][1]]

----------------------------------------------------------------------------
(* Upstream responses *)

StatusCodes == {200, 204, 300, 304, 404, 500}

RawValues == 0..MaxRaw
FrameRaws == {0, MaxRaw \div 2}

\* A field-set as the inference service writes it.
FieldSets == [current_p : RawValues]

\* Frames of a timeline: without 'fields', or with a field-set.
Frames == {[pk |-> 1]} \cup {[pk |-> 1, fields |-> [current_p |-> x]] : x \in FrameRaws}

SeqsUpTo(S, n) == UNION {[1..k -> S] : k \in 0..n}

\* A body is None when it is not JSON (r.json() raises), else the array.
Bodies == {None} \cup {Some(b) : b \in SeqsUpTo(Frames, MaxFrames)}

\* What the store may answer.  A 4xx/5xx carries an error page, which is not
\* JSON (its body is never read); any other status carries any body.
UpstreamResponses ==
    {rr \in [status_code : StatusCodes, headers : UpstreamHeaders, body : Bodies] :
        rr.status_code >= 400 => rr.body = None}

\* requests.Response.raise_for_status, line 189: HTTPError for 4xx and 5xx.
raise_for_status(rr) == 400 <= rr.status_code /\ rr.status_code < 600

\* line 197
IsNotModified_typo(rr) == rr.status_code = 403

IsNotModified(rr) == rr.status_code = 304

----------------------------------------------------------------------------
(* Normalisation *)

\* dict item assignment d[k] = v
SetItem(d, k, v) == [x \in DOMAIN d \cup {k} |-> IF x = k THEN v ELSE d[x]]

\* PrinterPrediction(**raw_pred['fields']), line 218
PrinterPrediction(fields) == [current_p |-> fields.current_p]

\* app.models.calc_normalized_p
calc_normalized_p_inverted(detective_sensitivity, pred) ==
    Min(Unit, (pred.current_p * DefaultSensitivity * Unit)
                  \div (MaxRaw * detective_sensitivity))

calc_normalized_p(detective_sensitivity, pred) ==
    Min(Unit, (pred.current_p * detective_sensitivity * Unit)
                  \div (MaxRaw * DefaultSensitivity))

\* lines 206-210
DetectiveSensitivity_default(pp) == DefaultSensitivity

DetectiveSensitivity(pp) ==
    IF pp.printer # None THEN pp.printer[1].detective_sensitivity
    ELSE DefaultSensitivity

\* line 213
HasFields(raw_pred) == "fields" \in DOMAIN raw_pred

\* lines 213-220, one iteration of the loop
NormalizeFrame_skip(raw_pred, detective_sensitivity) ==
    IF ~HasFields(raw_pred)
    THEN raw_pred
    ELSE SetItem(raw_pred, "fields",
            SetItem(raw_pred.fields, "normalized_p",
                calc_normalized_p(detective_sensitivity,
                                  PrinterPrediction(raw_pred.fields))))

NormalizeFrame(raw_pred, detective_sensitivity) ==
    IF ~HasFields(raw_pred)
    THEN SetItem(raw_pred, "fields", [normalized_p |-> 0])
    ELSE SetItem(raw_pred, "fields",
            SetItem(raw_pred.fields, "normalized_p",
                calc_normalized_p(detective_sensitivity,
                                  PrinterPrediction(raw_pred.fields))))

\* lines 212-220, the loop over data
NormalizeAll_dropping(data, detective_sensitivity) ==
    LET kept == SelectSeq(data, HasFields)
    IN  [i \in 1..Len(kept) |-> NormalizeFrame(kept[i], detective_sensitivity)]

NormalizeAll(data, detective_sensitivity) ==
    [i \in 1..Len(data) |-> NormalizeFrame(data[i], detective_sensitivity)]

\* the frames of data for which the loop reaches line 219
RECURSIVE CalcIndices(_, _)
CalcIndices(data, i) ==
    IF i > Len(data) THEN <<>>
    ELSE (IF HasFields(data[i]) THEN <<i>> ELSE <<>>) \o CalcIndices(data, i + 1)

----------------------------------------------------------------------------
(* Outcomes of a request *)

\* rest_framework Response(data, status=..., headers=...)
Response(data, status, headers) ==
    [raised |-> None, data |-> data, status |-> status, headers |-> headers]

\* an exception leaving the handler
Raised(exc) ==
    [raised |-> Some(exc), data |-> None, status |-> 0, headers |-> EmptyDict]

\* line 178
HasNoReference_never(pp) == FALSE

HasNoReference(pp) ==
    pp.prediction_json_url = None \/ pp.prediction_json_url[1] = ""

----------------------------------------------------------------------------
Init ==
    /\ printer_sensitivity = DefaultSensitivity
    /\ pc = "idle"
    /\ request = None
    /\ p = None
    /\ sent = None
    /\ r = None
    /\ resp = None
    /\ net_calls = 0
    /\ json_calls = 0
    /\ calc_calls = <<>>
    /\ sens_at_request = DefaultSensitivity
    /\ seen_sensitivity = None
    /\ calc_in = None
    /\ calc_out = None

\* PrinterViewSet.partial_update, lines 105-110
partial_update(value) ==
    /\ printer_sensitivity' = value
    /\ UNCHANGED <<pc, request, p, sent, r, resp, net_calls, json_calls,
                   calc_calls, sens_at_request, seen_sensitivity, calc_in, calc_out>>

\* prediction_json, lines 172-188: up to the point the GET is issued
prediction_json_begin(pk, headers) ==
    /\ pc = "idle"
    /\ request' = Some([pk |-> pk, headers |-> headers])
    /\ sens_at_request' = printer_sensitivity
    /\ r' = None
    /\ json_calls' = 0
    /\ calc_calls' = <<>>
    /\ LET obj == get_object_or_404(pk)
       IN  IF obj = None
           THEN /\ p' = None
                /\ sent' = None
                /\ net_calls' = 0
                /\ resp' = Some(Raised("Http404"))
                /\ pc' = "done"
           ELSE /\ p' = obj
                /\ IF HasNoReference(obj[1])
                   THEN /\ sent' = None
                        /\ net_calls' = 0
                        /\ resp' = Some(Response(Some(<<>>), 200, EmptyDict))
                        /\ pc' = "done"
                   ELSE /\ sent' = Some([url |-> obj[1].prediction_json_url,
                                         timeout |-> PREDICTION_FETCH_TIMEOUT,
                                         headers |-> RequestHeaders(BuildHeaders(headers))])
                        /\ net_calls' = 1
                        /\ resp' = None
                        /\ pc' = "fetching"
    /\ UNCHANGED <<printer_sensitivity, seen_sensitivity, calc_in, calc_out>>

\* requests.get raises Timeout after PREDICTION_FETCH_TIMEOUT, line 186
prediction_json_timeout ==
    /\ pc = "fetching"
    /\ r' = None
    /\ resp' = Some(Raised("Timeout"))
    /\ pc' = "done"
    /\ UNCHANGED <<printer_sensitivity, request, p, sent, net_calls, json_calls,
                   calc_calls, sens_at_request, seen_sensitivity, calc_in, calc_out>>

\* prediction_json, lines 189-225: from the upstream response rr to the return
prediction_json_respond(rr) ==
    /\ pc = "fetching"
    /\ r' = Some(rr)
    /\ pc' = "done"
    /\ IF raise_for_status(rr)
       THEN /\ resp' = Some(Raised("HTTPError"))
            /\ json_calls' = 0
            /\ calc_calls' = <<>>
       ELSE LET resp_headers == BuildRespHeaders(rr)
            IN  IF IsNotModified(rr)
                THEN /\ resp' = Some(Response(None, 304, ResponseHeaders(resp_headers)))
                     /\ json_calls' = 0
                     /\ calc_calls' = <<>>
                ELSE /\ json_calls' = 1
                     /\ IF rr.body = None
                        THEN /\ resp' = Some(Raised("JSONDecodeError"))
                             /\ calc_calls' = <<>>
                        ELSE LET data == rr.body[1]
                                 detective_sensitivity == DetectiveSensitivity(p[1])
                             IN  /\ calc_calls' = CalcIndices(data, 1)
                                 /\ resp' = Some(Response(
                                        Some(NormalizeAll(data, detective_sensitivity)),
                                        200, ResponseHeaders(resp_headers)))
    /\ UNCHANGED <<printer_sensitivity, request, p, sent, net_calls,
                   sens_at_request, seen_sensitivity, calc_in, calc_out>>

\* The outcome reaches the caller and the request-scoped objects are released.
prediction_json_return ==
    /\ pc = "done"
    /\ pc' = "idle"
    /\ seen_sensitivity' = IF p # None /\ p[1].printer # None
                           THEN Some(p[1].printer[1].detective_sensitivity)
                           ELSE seen_sensitivity
    /\ request' = None
    /\ p' = None
    /\ sent' = None
    /\ r' = None
    /\ resp' = None
    /\ net_calls' = 0
    /\ json_calls' = 0
    /\ calc_calls' = <<>>
    /\ UNCHANGED <<printer_sensitivity, sens_at_request, calc_in, calc_out>>

Next ==
    \/ \E value \in UpdateValues : partial_update(value)
    \/ \E pk \in PrimaryKeys, headers \in ClientHeaders : prediction_json_begin(pk, headers)
    \/ prediction_json_timeout
    \/ \E rr \in UpstreamResponses : prediction_json_respond(rr)
    \/ prediction_json_return

Spec == Init /\ [][Next]_vars

----------------------------------------------------------------------------
(* The calibration function on its own: inputs drawn in InitCalc *)

InitCalc ==
    /\ printer_sensitivity = DefaultSensitivity
    /\ pc = "idle"
    /\ request = None
    /\ p = None
    /\ sent = None
    /\ r = None
    /\ resp = None
    /\ net_calls = 0
    /\ json_calls = 0
    /\ calc_calls = <<>>
    /\ sens_at_request = DefaultSensitivity
    /\ seen_sensitivity = None
    /\ calc_in \in {Some(x) : x \in [s1 : Sensitivities, s2 : Sensitivities, fields : FieldSets]}
    /\ calc_out = None

\* lines 218-220 applied to the same field-set under two sensitivities
apply_calc ==
    /\ calc_in # None
    /\ calc_out = None
    /\ calc_out' = Some([n1 |-> calc_normalized_p(calc_in[1].s1, PrinterPrediction(calc_in[1].fields)),
                         n2 |-> calc_normalized_p(calc_in[1].s2, PrinterPrediction(calc_in[1].fields))])
    /\ UNCHANGED <<printer_sensitivity, pc, request, p, sent, r, resp, net_calls,
                   json_calls, calc_calls, sens_at_request, seen_sensitivity, calc_in>>

NextCalc == apply_calc

SpecCalc == InitCalc /\ [][NextCalc]_vars

----------------------------------------------------------------------------
(* Properties *)

Validators == {"Last-Modified", "Etag"}

\* the request ended after an upstream 200 whose body is a JSON array
Fresh == pc = "done" /\ r # None /\ r[1].status_code = 200 /\ r[1].body # None

\* the upstream frames and the frames returned
Upstream == r[1].body[1]
Returned == resp[1].data[1]

\* frame i of the upstream body carries a field-set
WellFormed(i) == "fields" \in DOMAIN Upstream[i]

\* the response returned a frame sequence as long as the upstream body
SameLength ==
    /\ resp[1].raised = None
    /\ resp[1].data # None
    /\ Len(Returned) = Len(Upstream)

\* C1: after an upstream 200 with N frames the response has exactly N frames,
\* frame i is upstream frame i (same keys and values, same raw fields) and
\* every returned frame's fields holds a normalized_p key.
C1_FramesPreserved ==
    Fresh =>
        /\ SameLength
        /\ resp[1].status = 200
        /\ \A i \in 1..Len(Upstream) :
            /\ DOMAIN Returned[i] = DOMAIN Upstream[i] \cup {"fields"}
            /\ \A k \in DOMAIN Upstream[i] \ {"fields"} : Returned[i][k] = Upstream[i][k]
            /\ WellFormed(i) =>
                 \A k \in DOMAIN Upstream[i].fields \ {"normalized_p"} :
                     /\ k \in DOMAIN Returned[i].fields
                     /\ Returned[i].fields[k] = Upstream[i].fields[k]
            /\ "normalized_p" \in DOMAIN Returned[i].fields

C1_Witness ==
    /\ Fresh
    /\ Len(Upstream) >= 2
    /\ ~WellFormed(1)
    /\ WellFormed(2)
    /\ SameLength
    /\ Returned[2].fields.current_p = Upstream[2].fields.current_p

\* C2: an upstream 304 is answered with status 304 and an empty body; the
\* body is never parsed and calc_normalized_p is never invoked.
C2_NotModifiedPassThrough ==
    (pc = "done" /\ r # None /\ r[1].status_code = 304) =>
        /\ resp[1].raised = None
        /\ resp[1].status = 304
        /\ resp[1].data = None
        /\ json_calls = 0
        /\ calc_calls = <<>>

C2_Witness ==
    /\ pc = "done"
    /\ r # None
    /\ r[1].status_code = 304
    /\ resp[1].status = 304
    /\ r[1].body # None
    /\ Len(r[1].body[1]) >= 1
    /\ request[1].headers # EmptyDict
    /\ p[1].printer # None
    /\ p[1].printer[1].detective_sensitivity # DefaultSensitivity

\* C3: a print whose prediction_json_url is null gets an empty sequence and
\* the request makes no upstream call, whatever validators the client sent.
C3_NoReferenceNoFetch ==
    (pc # "idle" /\ p # None /\ p[1].prediction_json_url = None) =>
        /\ pc = "done"
        /\ resp = Some(Response(Some(<<>>), 200, EmptyDict))
        /\ net_calls = 0
        /\ sent = None

C3_Witness ==
    /\ pc = "done"
    /\ p # None
    /\ p[1].prediction_json_url = None
    /\ DOMAIN request[1].headers = {"if-modified-since", "if-none-match"}
    /\ resp[1].data = Some(<<>>)
    /\ net_calls = 0

Is2xx(status) == 200 <= status /\ status < 300

\* C4: a timeout or an upstream status that is neither 2xx nor 304 ends the
\* request in failure with no frames; frames are returned only after a 2xx.
C4_FailureAborts ==
    (pc = "done" /\ sent # None) =>
        /\ (r = None \/ (r # None /\ ~Is2xx(r[1].status_code) /\ r[1].status_code # 304)) =>
               (resp[1].raised # None /\ resp[1].data = None)
        /\ (resp[1].raised = None /\ resp[1].data # None) =>
               (r # None /\ Is2xx(r[1].status_code))

\* the validator of the upstream GET matches the client's: present exactly
\* when the client header is, with the client's value
Forwarded(up, down) ==
    /\ (up \in DOMAIN sent[1].headers) <=> (down \in DOMAIN request[1].headers)
    /\ up \in DOMAIN sent[1].headers => sent[1].headers[up] = request[1].headers[down]

\* C5 as amended: the upstream GET carries each validator exactly when the
\* client's request holds that header, with the client's value (an empty
\* value included); an absent validator is omitted and nothing else is sent.
C5_ValidatorsForwarded ==
    sent # None =>
        /\ DOMAIN sent[1].headers \subseteq {"If-Modified-Since", "If-None-Match"}
        /\ Forwarded("If-Modified-Since", "if-modified-since")
        /\ Forwarded("If-None-Match", "if-none-match")
        /\ sent[1].timeout = PREDICTION_FETCH_TIMEOUT

C5_Witness ==
    /\ sent # None
    /\ DOMAIN request[1].headers = {"if-none-match"}
    /\ request[1].headers["if-none-match"] = ""
    /\ DOMAIN sent[1].headers = {"If-None-Match"}
    /\ sent[1].headers["If-None-Match"] = ""

\* C5 as stated: validators are forwarded exactly when supplied, and an
\* empty or placeholder validator is never sent.
C5_NeverEmptyValidator ==
    sent # None =>
        /\ Forwarded("If-Modified-Since", "if-modified-since")
        /\ Forwarded("If-None-Match", "if-none-match")
        /\ \A k \in DOMAIN sent[1].headers : sent[1].headers[k] \notin {"", "None"}

\* C6: on the 304 and on the 200 outcome the response carries Last-Modified
\* (resp. Etag) if and only if the upstream response carried it, with the
\* upstream value, each validator independently of the other.
C6_ValidatorsReturned ==
    (pc = "done" /\ r # None /\ resp[1].raised = None) =>
        /\ DOMAIN resp[1].headers \subseteq Validators
        /\ \A k \in Validators :
            /\ (k \in DOMAIN resp[1].headers) <=> (k \in DOMAIN r[1].headers)
            /\ k \in DOMAIN resp[1].headers => resp[1].headers[k] = r[1].headers[k]

C6_Witness ==
    /\ pc = "done"
    /\ r # None
    /\ r[1].status_code = 304
    /\ DOMAIN r[1].headers = {"Etag"}
    /\ resp[1].raised = None
    /\ DOMAIN resp[1].headers = {"Etag"}
    /\ resp[1].headers["Etag"] = "abc"

\* every well-formed frame was normalised with sensitivity s
NormalizedWith(s) ==
    \A i \in 1..Len(Upstream) :
        WellFormed(i) =>
            /\ "fields" \in DOMAIN Returned[i]
            /\ "normalized_p" \in DOMAIN Returned[i].fields
            /\ Returned[i].fields.normalized_p =
                   calc_normalized_p(s, PrinterPrediction(Upstream[i].fields))

\* C7: the frames of a request are normalised with the sensitivity the
\* printer had stored when the request was made, never with the value an
\* earlier request saw.
C7_CurrentSensitivity ==
    (Fresh /\ print_rows[request[1].pk].has_printer) =>
        /\ SameLength
        /\ NormalizedWith(sens_at_request)

C7_Witness ==
    /\ Fresh
    /\ print_rows[request[1].pk].has_printer
    /\ seen_sensitivity # None
    /\ seen_sensitivity[1] # sens_at_request
    /\ SameLength
    /\ \E i \in 1..Len(Upstream) :
        /\ WellFormed(i)
        /\ Returned[i].fields.normalized_p =
               calc_normalized_p(sens_at_request, PrinterPrediction(Upstream[i].fields))
        /\ Returned[i].fields.normalized_p #
               calc_normalized_p(seen_sensitivity[1], PrinterPrediction(Upstream[i].fields))

\* C8: without a printer every well-formed frame is normalised with the
\* default sensitivity; with a printer, with that printer's sensitivity, one
\* value for all frames of the response.
C8_SensitivityChoice ==
    Fresh =>
        /\ SameLength
        /\ IF print_rows[request[1].pk].has_printer
           THEN /\ p[1].printer # None
                /\ NormalizedWith(p[1].printer[1].detective_sensitivity)
           ELSE NormalizedWith(DefaultSensitivity)

C8_Witness ==
    /\ Fresh
    /\ ~print_rows[request[1].pk].has_printer
    /\ printer_sensitivity # DefaultSensitivity
    /\ sens_at_request # DefaultSensitivity
    /\ SameLength
    /\ Len(Upstream) >= 2
    /\ \A i \in 1..Len(Upstream) :
        /\ WellFormed(i)
        /\ Returned[i].fields.normalized_p =
               calc_normalized_p(DefaultSensitivity, PrinterPrediction(Upstream[i].fields))
    /\ \E i \in 1..Len(Upstream) :
        Returned[i].fields.normalized_p #
            calc_normalized_p(printer_sensitivity, PrinterPrediction(Upstream[i].fields))

\* the indices calc_normalized_p was invoked for
Invoked == {calc_calls[j] : j \in 1..Len(calc_calls)}

\* C9: for a frame without a field-set calc_normalized_p is not invoked and
\* the returned frame gets the field-set {normalized_p: 0.0}; the frame is
\* kept, no error is raised and the other frames are normalised.
C9_MalformedFrame ==
    Fresh =>
        /\ SameLength
        /\ \A i \in 1..Len(Upstream) :
            IF WellFormed(i)
            THEN /\ i \in Invoked
                 /\ "normalized_p" \in DOMAIN Returned[i].fields
                 /\ Returned[i].fields.normalized_p =
                        calc_normalized_p(DetectiveSensitivity(p[1]),
                                          PrinterPrediction(Upstream[i].fields))
            ELSE /\ i \notin Invoked
                 /\ "fields" \in DOMAIN Returned[i]
                 /\ Returned[i].fields = [normalized_p |-> 0]

C9_Witness ==
    /\ Fresh
    /\ Len(Upstream) >= 2
    /\ \E i, j \in 1..Len(Upstream) :
        /\ ~WellFormed(i)
        /\ WellFormed(j)
        /\ SameLength
        /\ Returned[i].fields = [normalized_p |-> 0]
        /\ Returned[j].fields.normalized_p > 0
        /\ Invoked = {j}

====
